---- MODULE Spec2Model ----
(***************************************************************************)
(* Larini Quote API (src/app.py): the layout geometry, the content         *)
(* assembler build_story, the page flow of generate_pdf_bytes and the      *)
(* /generate request handler.                                              *)
(*                                                                         *)
(* Lengths are points, held as exact rationals <<n, d>> in lowest terms    *)
(* with d > 0 (the code computes them in binary floating point).           *)
(* Strings the code inspects are sequences of one-character strings.       *)
(***************************************************************************)
EXTENDS Integers, Sequences, FiniteSets, TLC

VARIABLES
    \* ---- one call of generate_pdf_bytes ----
    step,        \* position in the call: "start", "geom", "story", "flow", "done"
    header_px,   \* <<w, h>> read_image_size(header_path)
    footer_px,   \* <<w, h>> read_image_size(footer_path)
    geom,        \* the geometry computed at lines 143-152, or NoGeom
    data,        \* the record handed to build_story (a function on its keys)
    data_in,     \* the record as it was handed over
    photo,       \* the vehicle_photo argument of build_story
    story,       \* the flowable list build_story returned
    \* ---- doc.build(story) ----
    flow,        \* the state of the page flow
    \* ---- the /generate handler, two concurrent requests ----
    assets,      \* which default brand assets exist
    req,         \* each request's form fields
    pc,          \* each request's position (the await it is suspended at)
    fs,          \* the shared tmp directory: path -> content
    data_src,    \* whose input each request's record holds
    rendered,    \* what each request's generate_pdf_bytes call read, and how it ended
    resp         \* each request's response

vars == <<step, header_px, footer_px, geom, data, data_in, photo, story, flow,
          assets, req, pc, fs, data_src, rendered, resp>>

callVars == <<step, header_px, footer_px, geom, data, data_in, photo, story, flow>>
handlerVars == <<assets, req, pc, fs, data_src, rendered, resp>>

-----------------------------------------------------------------------------
(* Bounds of the model *)

\* Header and footer images have pixel widths and heights in -1 .. MaxPx.
MaxPx == 3
\* The monthly fee ranges over all strings of at most MaxLen characters.
MaxLen == 4
\* Vehicle photos have pixel widths and heights 150 * k for k in 1 .. MaxPhoto.
MaxPhoto == 4
\* A paragraph wraps to at most MaxLines lines.
MaxLines == 2

-----------------------------------------------------------------------------
(* Exact rational arithmetic *)

Abs(x) == IF x < 0 THEN -x ELSE x

RECURSIVE Gcd(_, _)
Gcd(a, b) == IF b = 0 THEN a ELSE Gcd(b, a % b)

Rat(n, d) ==
    LET s == IF d < 0 THEN -1 ELSE 1
        g == Gcd(Abs(n), Abs(d))
    IN  <<(s * n) \div g, (s * d) \div g>>

RAdd(a, b) ==
    LET g == Gcd(a[2], b[2])
        l == (a[2] \div g) * b[2]
    IN  Rat(a[1] * (l \div a[2]) + b[1] * (l \div b[2]), l)

RNeg(a) == <<-a[1], a[2]>>
RSub(a, b) == RAdd(a, RNeg(b))

RMul(a, b) ==
    LET g1 == Gcd(Abs(a[1]), b[2])
        g2 == Gcd(Abs(b[1]), a[2])
    IN  Rat((a[1] \div g1) * (b[1] \div g2), (a[2] \div g2) * (b[2] \div g1))

RDiv(a, b) == RMul(a, Rat(b[2], b[1]))
RInt(n) == <<n, 1>>
RLess(a, b) == RSub(a, b)[1] < 0
RLeq(a, b) == RSub(a, b)[1] <= 0
RMax(a, b) == IF RLess(a, b) THEN b ELSE a
RMin(a, b) == IF RLess(b, a) THEN b ELSE a
RZero == <<0, 1>>

-----------------------------------------------------------------------------
(* Layout constants, src/app.py lines 13-14 and 32-36 *)

cm == Rat(7200, 254)                      \* reportlab.lib.units.cm = 72 / 2.54
PAGE_WIDTH == RMul(RInt(21), cm)          \* A4 = (210 mm, 297 mm)
PAGE_HEIGHT == RMul(Rat(297, 10), cm)
MARGIN_PT == Rat(4252, 100)
BOTTOM_OFFSET_PT == RMul(Rat(1, 2), cm)
RESERVED_GAP_ABOVE_FOOTER_PT == RInt(10)
VEHICLE_TOP_BOTTOM_GAP_PT == Rat(2835, 100)
MAX_VEHICLE_RATIO == Rat(30, 100)
MIN_FRAME_HEIGHT == RInt(100)
PHOTO_MAX_WIDTH == RMul(RInt(10), cm)

-----------------------------------------------------------------------------
(* Geometry, src/app.py lines 48-54 and 143-152 *)

scaled_height_for_full_width(wpx, hpx, target_wpt) ==
    IF wpx <= 0 \/ hpx <= 0 THEN RZero
    ELSE RMul(RInt(hpx), RDiv(target_wpt, RInt(wpx)))

calc_footer_height(page_width_pt, px) ==
    scaled_height_for_full_width(px[1], px[2], page_width_pt)

calc_header_height(usable_width_pt, px) ==
    scaled_height_for_full_width(px[1], px[2], usable_width_pt)

BottomReserved(footer_h) ==
    RAdd(RAdd(BOTTOM_OFFSET_PT, footer_h), RESERVED_GAP_ABOVE_FOOTER_PT)

UsableWidth == RSub(PAGE_WIDTH, RMul(RInt(2), MARGIN_PT))

FirstTopNoHeader(header_h) == RSub(PAGE_HEIGHT, MARGIN_PT)
FirstTop(header_h) == RSub(RSub(PAGE_HEIGHT, MARGIN_PT), header_h)

LaterTop == RSub(PAGE_HEIGHT, MARGIN_PT)

UsableHeightNoFloor(top, bottom_reserved) == RSub(top, bottom_reserved)
UsableHeight(top, bottom_reserved) ==
    RMax(RSub(top, bottom_reserved), MIN_FRAME_HEIGHT)

Geometry(hpx, fpx) ==
    LET footer_h == calc_footer_height(PAGE_WIDTH, fpx)
        bottom_reserved == BottomReserved(footer_h)
        header_h == calc_header_height(UsableWidth, hpx)
    IN  [ footer_h |-> footer_h,
          bottom_reserved |-> bottom_reserved,
          usable_width |-> UsableWidth,
          header_h |-> header_h,
          first_top |-> FirstTop(header_h),
          later_top |-> LaterTop,
          h_first |-> UsableHeight(FirstTop(header_h), bottom_reserved),
          h_later |-> UsableHeight(LaterTop, bottom_reserved) ]

NoGeom == [ footer_h |-> RZero, bottom_reserved |-> RZero, usable_width |-> RZero,
            header_h |-> RZero, first_top |-> RZero, later_top |-> RZero,
            h_first |-> RZero, h_later |-> RZero ]

-----------------------------------------------------------------------------
(* Strings, as the code inspects them at line 119 *)

Alphabet == {"N", "D", ".", " ", "4"}

Strings(n) == UNION { [1..k -> Alphabet] : k \in 0..n }

Str_ND == <<"N", ".", "D", ".">>          \* the sentinel "N.D."
Str_nd == <<"n", ".", "d">>               \* the prefix tested at line 119
Str_44 == <<"4", "4">>

LowerChar(c) == CASE c = "N" -> "n" [] c = "D" -> "d" [] OTHER -> c
Lower(s) == [i \in DOMAIN s |-> LowerChar(s[i])]

StartsWith(s, p) == Len(s) >= Len(p) /\ SubSeq(s, 1, Len(p)) = p

RECURSIVE LStrip(_)
LStrip(s) == IF s # <<>> /\ Head(s) = " " THEN LStrip(Tail(s)) ELSE s
RECURSIVE RStrip(_)
RStrip(s) ==
    IF s # <<>> /\ s[Len(s)] = " " THEN RStrip(SubSeq(s, 1, Len(s) - 1)) ELSE s
Strip(s) == RStrip(LStrip(s))

-----------------------------------------------------------------------------
(* build_story, src/app.py lines 92-139 *)

Fields == {"cliente_nome", "piva_cf", "sede", "referente", "marca_modello",
           "versione", "motore", "neopatentati", "consegna", "durata",
           "km_annui", "anticipo", "canone"}

\* data.get(k, 'N.D.')
GetOrEmpty(d, k) == IF k \in DOMAIN d THEN d[k] ELSE <<>>
Get(d, k) == IF k \in DOMAIN d THEN d[k] ELSE Str_ND

NoVal == <<>>

Paragraph(style, pre, field, val, post) ==
    [kind |-> "Paragraph", style |-> style, pre |-> pre, field |-> field,
     val |-> val, post |-> post, width |-> RZero, height |-> RZero]

Title(text) == Paragraph("title", text, "", NoVal, "")
Line(text) == Paragraph("base", text, "", NoVal, "")
FieldLine(d, pre, k, post) == Paragraph("base", pre, k, Get(d, k), post)

Spacer(w, h) ==
    [kind |-> "Spacer", style |-> "", pre |-> "", field |-> "", val |-> NoVal,
     post |-> "", width |-> RInt(w), height |-> h]

Image(size) ==
    [kind |-> "Image", style |-> "CENTER", pre |-> "", field |-> "", val |-> NoVal,
     post |-> "", width |-> size[1], height |-> size[2]]

\* Image._restrictSize(aW, aH) on an image whose natural size is w x h pixels,
\* drawn at one point per pixel: scaled down by one factor to fit both limits.
RestrictSize(w, h, aW, aH) ==
    IF RLess(aW, RInt(w)) \/ RLess(aH, RInt(h))
    THEN LET factor == RMin(RDiv(aW, RInt(w)), RDiv(aH, RInt(h)))
         IN  <<RMul(RInt(w), factor), RMul(RInt(h), factor)>>
    ELSE <<RInt(w), RInt(h)>>

PhotoLimitsWidthOnly(first_page_usable_height) ==
    <<PHOTO_MAX_WIDTH, first_page_usable_height>>
PhotoLimits(first_page_usable_height) ==
    <<PHOTO_MAX_WIDTH, RMul(MAX_VEHICLE_RATIO, first_page_usable_height)>>

PhotoPresent(p) == p.given /\ p.exists

PhotoBlock(p, first_page_usable_height) ==
    IF PhotoPresent(p)
    THEN LET lim == PhotoLimits(first_page_usable_height)
         IN  << Spacer(1, VEHICLE_TOP_BOTTOM_GAP_PT),
                Image(RestrictSize(p.w, p.h, lim[1], lim[2])),
                Spacer(1, VEHICLE_TOP_BOTTOM_GAP_PT) >>
    ELSE << >>

ClientSection(d) ==
    << Title("DATI CLIENTE"),
       FieldLine(d, "Ragione sociale / Nome: ", "cliente_nome", ""),
       FieldLine(d, "P.IVA / CF: ", "piva_cf", ""),
       FieldLine(d, "Sede: ", "sede", ""),
       FieldLine(d, "Referente: ", "referente", ""),
       Spacer(1, RInt(6)) >>

VehicleSection(d) ==
    << Title("VEICOLO PROPOSTO"),
       FieldLine(d, "Marca e Modello: ", "marca_modello", ""),
       FieldLine(d, "Versione / Allestimento: ", "versione", ""),
       FieldLine(d, "Motore / Alimentazione / Cambio / Potenza: ", "motore", ""),
       FieldLine(d, "Idoneo neopatentati: ", "neopatentati", ""),
       FieldLine(d, "Consegna stimata: ", "consegna", ""),
       Spacer(1, RInt(6)) >>

EconomicSection(d) ==
    << Title("CONDIZIONI ECONOMICHE"),
       FieldLine(d, "Durata: ", "durata", " mesi"),
       FieldLine(d, "Chilometraggio: ", "km_annui", " km/anno"),
       FieldLine(d, "Anticipo: ", "anticipo", " euro") >>

\* line 119: price and not str(price).lower().startswith("n.d")
HasPriceTrimmed(price) == price # <<>> /\ ~StartsWith(Lower(Strip(price)), Str_nd)
HasPrice(price) == price # <<>> /\ ~StartsWith(Lower(price), Str_nd)

PriceSection(d) ==
    LET price == Get(d, "canone")
    IN  IF HasPrice(price)
        THEN << Spacer(1, RInt(4)),
                Paragraph("price", "", "canone", price, " euro + IVA al mese"),
                Paragraph("italic", "Tutto incluso - senza sorprese", "", NoVal, "") >>
        ELSE << Line("Canone mensile: N.D.") >>

Services ==
    << "RCA", "Kasko / Danni / Furto & Incendio",
       "Manutenzione ordinaria e straordinaria",
       "Pneumatici (premium o equivalenti)", "Assistenza stradale 24h",
       "Gestione sinistri e contravvenzioni", "Veicolo sostitutivo (se previsto)",
       "Immatricolazione e consegna" >>

ServicesSection ==
    << Spacer(1, RInt(6)), Title("SERVIZI INCLUSI") >>
    \o [i \in DOMAIN Services |-> Paragraph("base", "- ", "", NoVal, Services[i])]

ClosingSections ==
    << Spacer(1, RInt(6)), Title("DOCUMENTAZIONE RICHIESTA"),
       Line("SOCIETA (SRL, SAS, SPA, SRLS): documento; cod. fiscale; visura aggiornata a 6 mesi; ultimo bilancio depositato con ricevuta"),
       Line("DITTA INDIVIDUALE / SNC / LIBERO PROFESSIONISTA: documento; cod. fiscale; visura aggiornata a 6 mesi; modello unico"),
       Line("PRIVATI: documento; cod. fiscale; CUD anno precedente; ultime 2 buste paga"),
       Line("PENSIONATI: documento; cod. fiscale; cedolini o estratto conto"),
       Spacer(1, RInt(6)), Title("TERMINI E CONDIZIONI"),
       Line("Offerta soggetta ad approvazione della societa di noleggio; Immagini a scopo illustrativo; Canoni IVA esclusa salvo diversa indicazione; Disponibilita e canone variabili secondo valutazione creditizia"),
       Spacer(1, RInt(6)), Title("CONTATTI"),
       Line("Larini Automotive Rent | Tel. 379 2114207 | noleggio@larini.it | www.larinirent.it") >>

build_story_services_first(d, p, first_page_usable_height) ==
    PhotoBlock(p, first_page_usable_height) \o ClientSection(d) \o VehicleSection(d)
        \o EconomicSection(d) \o ServicesSection \o PriceSection(d) \o ClosingSections
build_story(d, p, first_page_usable_height) ==
    PhotoBlock(p, first_page_usable_height) \o ClientSection(d) \o VehicleSection(d)
        \o EconomicSection(d) \o PriceSection(d) \o ServicesSection \o ClosingSections


-----------------------------------------------------------------------------
(* doc.build(story), src/app.py lines 156-184: the page flow of               *)
(* BaseDocTemplate over the two page templates                               *)

\* build_styles, lines 38-45: leading, spaceBefore, spaceAfter of each style
StyleOf(name) ==
    CASE name = "base"   -> [leading |-> 14, spaceBefore |-> 0, spaceAfter |-> 6]
      [] name = "title"  -> [leading |-> 14, spaceBefore |-> 8, spaceAfter |-> 6]
      [] name = "price"  -> [leading |-> 28, spaceBefore |-> 8, spaceAfter |-> 8]
      [] name = "italic" -> [leading |-> 14, spaceBefore |-> 2, spaceAfter |-> 8]

\* lines 178-181: the templates in the order they are added, with their frames
TemplateIds == <<"First", "Later">>
FrameHeight(g, tmpl) == IF tmpl = "First" THEN g.h_first ELSE g.h_later
DrawsHeader(tmpl) == tmpl = "First"        \* on_first_page, lines 171-173
DrawsFooter(tmpl) == TRUE                  \* both onPage routines, lines 173 and 176

\* The template of the page after one laid out with tmpl. The story holds no
\* NextPageTemplate flowable and neither PageTemplate is given
\* autoNextPageTemplate, so BaseDocTemplate keeps the template it has.
NextTemplate(tmpl) == tmpl

\* The height a flowable takes when it wraps to n lines; how a text wraps is
\* decided by font metrics, so each paragraph takes 1 .. MaxLines lines
BlockHeight(b, n) ==
    IF b.kind = "Paragraph" THEN RInt(n * StyleOf(b.style).leading) ELSE b.height
SpaceBefore(b) == IF b.kind = "Paragraph" THEN RInt(StyleOf(b.style).spaceBefore) ELSE RZero
SpaceAfter(b) == IF b.kind = "Paragraph" THEN RInt(StyleOf(b.style).spaceAfter) ELSE RZero
LinesOf(b) == IF b.kind = "Paragraph" THEN 1..MaxLines ELSE {1}

NoFlow == [page |-> 0, tmpl |-> "", idx |-> 0, n |-> 1, y |-> RZero, atTop |-> TRUE,
           header_draws |-> 0, footer_draws |-> 0, tmpls |-> <<>>]

\* handle_pageBegin: count the page, call the template's onPage, open its frame
PageBegin(f, g, tmpl) ==
    [f EXCEPT !.page = f.page + 1,
              !.tmpl = tmpl,
              !.y = FrameHeight(g, tmpl),
              !.atTop = TRUE,
              !.header_draws = f.header_draws + (IF DrawsHeader(tmpl) THEN 1 ELSE 0),
              !.footer_draws = f.footer_draws + (IF DrawsFooter(tmpl) THEN 1 ELSE 0),
              !.tmpls = Append(f.tmpls, tmpl)]

\* Frame._add: the space a flowable needs in the frame that is open
Needed(f, b, n) == RAdd(IF f.atTop THEN RZero ELSE SpaceBefore(b), BlockHeight(b, n))

-----------------------------------------------------------------------------
(* One call of generate_pdf_bytes, src/app.py lines 141-185 *)

\* lines 143-152
ComputeGeometry ==
    /\ step = "start"
    /\ geom' = Geometry(header_px, footer_px)
    /\ step' = "geom"
    /\ UNCHANGED <<header_px, footer_px, data, data_in, photo, story, flow>>
    /\ UNCHANGED handlerVars

\* line 183
BuildStory ==
    /\ step = "geom"
    /\ story' = build_story(data, photo, geom.h_first)
    /\ step' = "story"
    /\ UNCHANGED <<header_px, footer_px, geom, data, data_in, photo, flow>>
    /\ UNCHANGED handlerVars

\* line 184, doc.build: the first page opens with the first template added
StartBuild ==
    /\ step = "story"
    /\ \E n \in LinesOf(story[1]) :
          flow' = [PageBegin(NoFlow, geom, TemplateIds[1]) EXCEPT !.idx = 1, !.n = n]
    /\ step' = "flow"
    /\ UNCHANGED <<header_px, footer_px, geom, data, data_in, photo, story>>
    /\ UNCHANGED handlerVars

\* the next flowable fits the open frame
PlaceBlock ==
    /\ step = "flow"
    /\ flow.idx <= Len(story)
    /\ LET b == story[flow.idx]
           need == Needed(flow, b, flow.n)
       IN  /\ RLeq(need, flow.y)
           /\ \E n \in (IF flow.idx < Len(story) THEN LinesOf(story[flow.idx + 1]) ELSE {1}) :
                 flow' = [flow EXCEPT !.idx = flow.idx + 1,
                                      !.n = n,
                                      !.y = RSub(RSub(flow.y, need), SpaceAfter(b)),
                                      !.atTop = FALSE]
    /\ UNCHANGED <<step, header_px, footer_px, geom, data, data_in, photo, story>>
    /\ UNCHANGED handlerVars

\* the next flowable does not fit what is left of the frame: a new page
NewPage ==
    /\ step = "flow"
    /\ flow.idx <= Len(story)
    /\ ~flow.atTop
    /\ ~RLeq(Needed(flow, story[flow.idx], flow.n), flow.y)
    /\ flow' = PageBegin(flow, geom, NextTemplate(flow.tmpl))
    /\ UNCHANGED <<step, header_px, footer_px, geom, data, data_in, photo, story>>
    /\ UNCHANGED handlerVars

\* the story is used up: lines 184-185
EndBuild ==
    /\ step = "flow"
    /\ flow.idx > Len(story)
    /\ step' = "done"
    /\ UNCHANGED <<header_px, footer_px, geom, data, data_in, photo, story, flow>>
    /\ UNCHANGED handlerVars


-----------------------------------------------------------------------------
(* Specifications of one call *)

EmptyRecord == [k \in {} |-> NoVal]
NoPhoto == [given |-> FALSE, exists |-> FALSE, w |-> 0, h |-> 0]

Pixels == (-1)..MaxPx

InitHandlerIdle ==
    /\ assets = [header |-> TRUE, footer |-> TRUE]
    /\ req = <<>>
    /\ pc = <<>>
    /\ fs = <<>>
    /\ data_src = <<>>
    /\ rendered = <<>>
    /\ resp = <<>>

InitCall(hpx, fpx, d, p) ==
    /\ step = "start"
    /\ header_px = hpx
    /\ footer_px = fpx
    /\ geom = NoGeom
    /\ data = d
    /\ data_in = d
    /\ photo = p
    /\ story = <<>>
    /\ flow = NoFlow
    /\ InitHandlerIdle

\* Geometry: every header and footer image size
InitGeom ==
    \E hpx \in Pixels \X Pixels, fpx \in Pixels \X Pixels :
        InitCall(hpx, fpx, EmptyRecord, NoPhoto)

NextGeom == ComputeGeometry \/ BuildStory

SpecGeom == InitGeom /\ [][NextGeom]_vars

\* The monthly fee: no record key, or any string of at most MaxLen characters
FeeRecords == {EmptyRecord} \cup { [k \in {"canone"} |-> v] : v \in Strings(MaxLen) }

InitPrice == \E d \in FeeRecords : InitCall(<<2, 1>>, <<3, 1>>, d, NoPhoto)

SpecPrice == InitPrice /\ [][NextGeom]_vars

\* Records: every subset of the thirteen keys; a key other than the fee holds a
\* value of its own, the fee one of three values
SampleValue(k) == <<"=", k>>
FeeSamples == {Str_44, Str_ND, <<>>}
Records ==
    { [k \in ks |-> IF k = "canone" THEN fee ELSE SampleValue(k)] :
          ks \in SUBSET Fields, fee \in FeeSamples }

\* The photo argument: None, a path with no file, a path to an image file
PhotoArgs(sizes) ==
    {NoPhoto, [given |-> TRUE, exists |-> FALSE, w |-> 0, h |-> 0]}
        \cup { [given |-> TRUE, exists |-> TRUE, w |-> wh[1], h |-> wh[2]] : wh \in sizes }

InitStory ==
    \E d \in Records, p \in PhotoArgs({<<300, 200>>}) : InitCall(<<2, 1>>, <<3, 1>>, d, p)

SpecStory == InitStory /\ [][NextGeom]_vars

\* Photos of every size, on pages of every header and footer height
PhotoSizes == { 150 * k : k \in 1..MaxPhoto }
BrandSizes == { <<MaxPx, h>> : h \in 0..MaxPx }

InitPhoto ==
    \E hpx \in BrandSizes, fpx \in BrandSizes, p \in PhotoArgs(PhotoSizes \X PhotoSizes) :
        InitCall(hpx, fpx, EmptyRecord, p)

SpecPhoto == InitPhoto /\ [][NextGeom]_vars

\* The whole call, page flow included
InitRender ==
    \E hpx \in BrandSizes, fpx \in BrandSizes, p \in PhotoArgs({<<300, 200>>}),
       d \in {EmptyRecord, [k \in {"canone"} |-> Str_44]} :
        InitCall(hpx, fpx, d, p)

NextRender ==
    ComputeGeometry \/ BuildStory \/ StartBuild \/ PlaceBlock \/ NewPage \/ EndBuild

SpecRender == InitRender /\ [][NextRender]_vars

-----------------------------------------------------------------------------
(* The /generate handler, src/app.py lines 197-262: two requests served by    *)
(* one event loop. A request runs without interruption up to its next await   *)
(* (the read of an upload, lines 225, 239, 246 and 249), where the other       *)
(* request may run. The record's defaults (lines 230-233) and the output       *)
(* filename (lines 251-254) are locals of the request and touch nothing        *)
(* shared; the record is followed by whose input it holds.                     *)

Requests == {1, 2}
None == "None"
FileNames == {"a.jpg", "b.jpg"}

\* The form fields of a request: data_json absent, well-formed or malformed;
\* each upload absent or carrying a filename (two filenames for the photo and
\* the header, one for the supplier file and the footer).
Forms ==
    [data_json : {"none", "valid", "invalid"},
     supplier_file : {None, "a.jpg"},
     vehicle_photo : {None} \cup FileNames,
     header_image : {None} \cup FileNames,
     footer_image : {None, "a.jpg"}]

\* The uploads in the order the handler stores them
Stages == <<"supplier", "photo", "header", "footer">>

UploadOf(form, stage) ==
    CASE stage = "supplier" -> form.supplier_file
      [] stage = "photo"    -> form.vehicle_photo
      [] stage = "header"   -> form.header_image
      [] stage = "footer"   -> form.footer_image

\* tmp / filename (lines 224, 238), tmp / f"header_{filename}" (line 245),
\* tmp / f"footer_{filename}" (line 248)
PathOf(stage, name) ==
    CASE stage = "supplier" -> <<"tmp/", name>>
      [] stage = "photo"    -> <<"tmp/", name>>
      [] stage = "header"   -> <<"tmp/header_", name>>
      [] stage = "footer"   -> <<"tmp/footer_", name>>

Paths == {"tmp/", "tmp/header_", "tmp/footer_"} \X FileNames

\* What a file holds: nothing yet (Absent), zero bytes (Empty, just opened
\* "wb"), the bytes a request uploaded, or one upload written over another
Absent == [owner |-> 0, part |-> "absent"]
Empty == [owner |-> 0, part |-> "empty"]
Mixed == [owner |-> 0, part |-> "mixed"]
Upload(r, stage) == [owner |-> r, part |-> stage]
DefaultAsset(stage) == [owner |-> 0, part |-> stage]

\* path.open("wb"): the file is created or truncated
OpenWb(files, path) == [files EXCEPT ![path] = Empty]

\* f.write(bytes) at offset 0 of the file opened before the await: over a file
\* still empty the file is the upload; over what another open file wrote since,
\* the file is the upload, followed by the rest of the longer other one
Written(files, path, r, stage) ==
    IF files[path] = Empty THEN {Upload(r, stage)} ELSE {Upload(r, stage), Mixed}

\* ImageReader / Image can decode the file
Decodable(c) == c.part \in {"photo", "header", "footer"}

\* The stage after `stage` whose upload the request carries, or "render"
RECURSIVE StageFrom(_, _)
StageFrom(form, i) ==
    IF i > Len(Stages) THEN "render"
    ELSE IF UploadOf(form, Stages[i]) # None THEN Stages[i]
    ELSE StageFrom(form, i + 1)

StageIndex(stage) ==
    IF stage = "start" THEN 0 ELSE CHOOSE i \in DOMAIN Stages : Stages[i] = stage

NextStage(form, stage) == StageFrom(form, StageIndex(stage) + 1)

NoRender == [called |-> 0, ok |-> FALSE, cause |-> "", record |-> {},
             photo |-> Absent, header |-> Absent, footer |-> Absent]
NoResp == [status |-> 0, detail |-> "", cause |-> "", body |-> None]

\* lines 236-249: the paths handed to generate_pdf_bytes, and what they hold
PhotoRead(form, files) ==
    IF form.vehicle_photo = None THEN Absent
    ELSE files[PathOf("photo", form.vehicle_photo)]
HeaderRead(form, files) ==
    IF form.header_image = None THEN DefaultAsset("header")
    ELSE files[PathOf("header", form.header_image)]
FooterRead(form, files) ==
    IF form.footer_image = None THEN DefaultAsset("footer")
    ELSE files[PathOf("footer", form.footer_image)]

\* generate_pdf_bytes, lines 141-185, as the handler sees it: it raises when an
\* image it opens cannot be decoded, or when laying the story out fails
Render(form, files, src, layout_fails) ==
    LET ph == PhotoRead(form, files)
        hd == HeaderRead(form, files)
        ft == FooterRead(form, files)
        cause == IF ~Decodable(hd) \/ ~Decodable(ft) THEN "unreadable brand image"
                 ELSE IF ph # Absent /\ ~Decodable(ph) THEN "unreadable photo"
                 ELSE IF layout_fails THEN "layout error"
                 ELSE ""
    IN  [called |-> 1, ok |-> cause = "", cause |-> cause, record |-> src,
         photo |-> ph, header |-> hd, footer |-> ft]

\* lines 256-262: the response to a render that returned or raised
RenderResponsePartial(res) ==
    IF res.ok THEN [status |-> 200, detail |-> "", cause |-> "", body |-> "pdf"]
    ELSE [status |-> 500, detail |-> "PDF generation failed", cause |-> res.cause,
          body |-> "partial pdf"]
RenderResponse(res) ==
    IF res.ok THEN [status |-> 200, detail |-> "", cause |-> "", body |-> "pdf"]
    ELSE [status |-> 500, detail |-> "PDF generation failed", cause |-> res.cause,
          body |-> None]

\* line 209: the check made before anything else
AssetsMissing == ~assets.header \/ ~assets.footer

\* The handler from the point where request r has stored the upload of `stage`
\* (or has just started) to its next await or to its response
Continue(r, stage, files, src) ==
    LET next == NextStage(req[r], stage)
    IN  IF next = "render"
        THEN \E layout_fails \in BOOLEAN :
                LET res == Render(req[r], files, src, layout_fails)
                IN  /\ rendered' = [rendered EXCEPT ![r] = res]
                    /\ resp' = [resp EXCEPT ![r] = RenderResponse(res)]
                    /\ pc' = [pc EXCEPT ![r] = "done"]
                    /\ fs' = files
                    /\ data_src' = [data_src EXCEPT ![r] = src]
        ELSE /\ fs' = OpenWb(files, PathOf(next, UploadOf(req[r], next)))
             /\ pc' = [pc EXCEPT ![r] = next]
             /\ data_src' = [data_src EXCEPT ![r] = src]
             /\ UNCHANGED <<rendered, resp>>

\* lines 206-220, and on to the first await
Start(r) ==
    /\ pc[r] = "start"
    /\ IF AssetsMissing
       THEN /\ resp' = [resp EXCEPT ![r] = [status |-> 500, detail |-> "Brand assets missing",
                                            cause |-> "", body |-> None]]
            /\ pc' = [pc EXCEPT ![r] = "done"]
            /\ UNCHANGED <<fs, data_src, rendered>>
       ELSE IF req[r].data_json = "invalid"
       THEN /\ resp' = [resp EXCEPT ![r] = [status |-> 400, detail |-> "Invalid data_json",
                                            cause |-> "json", body |-> None]]
            /\ pc' = [pc EXCEPT ![r] = "done"]
            /\ UNCHANGED <<fs, data_src, rendered>>
       ELSE Continue(r, "start", fs, IF req[r].data_json = "valid" THEN {r} ELSE {})
    /\ UNCHANGED <<assets, req>>
    /\ UNCHANGED callVars

\* parse_supplier_file, lines 56-90, by whose upload the fields it finds come
\* from: a file that is not one whole document makes the parser raise, which
\* lines 63 and 68 swallow, and yields no field
Parsed(c) == IF c.part = "supplier" THEN {c.owner} ELSE {}

\* The read of an upload returns: the bytes are written (lines 225, 239, 246,
\* 249), a supplier file is parsed into the record (lines 226-228), and the
\* handler runs on to its next await or to its response
Resume(r) ==
    /\ pc[r] \in {"supplier", "photo", "header", "footer"}
    /\ LET path == PathOf(pc[r], UploadOf(req[r], pc[r]))
       IN  \E c \in Written(fs, path, r, pc[r]) :
              LET files == [fs EXCEPT ![path] = c]
                  src == IF pc[r] = "supplier" THEN data_src[r] \cup Parsed(c)
                         ELSE data_src[r]
              IN  Continue(r, pc[r], files, src)
    /\ UNCHANGED <<assets, req>>
    /\ UNCHANGED callVars

InitCallIdle ==
    /\ step = "idle"
    /\ header_px = <<0, 0>>
    /\ footer_px = <<0, 0>>
    /\ geom = NoGeom
    /\ data = EmptyRecord
    /\ data_in = EmptyRecord
    /\ photo = NoPhoto
    /\ story = <<>>
    /\ flow = NoFlow

Init ==
    /\ assets \in [header : BOOLEAN, footer : BOOLEAN]
    /\ req \in [Requests -> Forms]
    /\ pc = [r \in Requests |-> "start"]
    /\ fs = [p \in Paths |-> Absent]
    /\ data_src = [r \in Requests |-> {}]
    /\ rendered = [r \in Requests |-> NoRender]
    /\ resp = [r \in Requests |-> NoResp]
    /\ InitCallIdle

Next == \E r \in Requests : Start(r) \/ Resume(r)

Spec == Init /\ [][Next]_vars

-----------------------------------------------------------------------------
(* Claims about the geometry, under SpecGeom *)

GeomDone == step # "start"
Positive(px) == px[1] > 0 /\ px[2] > 0

\* The differences the code floors, written out from the constants
FirstDiff ==
    RSub(RSub(RSub(PAGE_HEIGHT, MARGIN_PT), geom.header_h),
         RAdd(RAdd(BOTTOM_OFFSET_PT, geom.footer_h), RESERVED_GAP_ABOVE_FOOTER_PT))
LaterDiff ==
    RSub(RSub(PAGE_HEIGHT, MARGIN_PT),
         RAdd(RAdd(BOTTOM_OFFSET_PT, geom.footer_h), RESERVED_GAP_ABOVE_FOOTER_PT))

\* C3 as stated: h_first < h_later whenever header_h > 0, and h_first = h_later
\* when header_h = 0, for every header and footer image size, the floor of 100
\* points included.
C3_Original ==
    GeomDone =>
        /\ RLess(RZero, geom.header_h) => RLess(geom.h_first, geom.h_later)
        /\ geom.header_h = RZero => geom.h_first = geom.h_later

\* C3 as amended: h_first <= h_later always; h_first < h_later whenever
\* header_h > 0 and the later page's difference later_top - bottom_reserved is
\* above the floor of 100 points; h_first = h_later when header_h = 0, and also
\* (both 100) when header_h > 0 and the later page's difference is at most 100.
C3_Amended ==
    GeomDone =>
        /\ RLeq(geom.h_first, geom.h_later)
        /\ (RLess(RZero, geom.header_h) /\ RLess(RInt(100), LaterDiff))
              => RLess(geom.h_first, geom.h_later)
        /\ geom.header_h = RZero => geom.h_first = geom.h_later
        /\ (RLess(RZero, geom.header_h) /\ RLeq(LaterDiff, RInt(100)))
              => (geom.h_first = RInt(100) /\ geom.h_later = RInt(100))

\* A header of positive height whose two frames are both floored at 100
C3_Witness ==
    /\ GeomDone
    /\ RLess(RZero, geom.header_h)
    /\ RLess(LaterDiff, RInt(100))
    /\ geom.h_first = geom.h_later

\* C7: for every header and footer image size (a zero or negative pixel
\* dimension gives a scaled height of 0), both usable heights are at least 100
\* points, and each equals top_bound - bottom_reserved whenever that difference
\* is at least 100, with bottom_reserved = BOTTOM_OFFSET_PT + footer_h +
\* RESERVED_GAP_ABOVE_FOOTER_PT, top_bound = page_height - MARGIN_PT - header_h
\* on the first page and page_height - MARGIN_PT on later pages.
C7_UsableHeights ==
    GeomDone =>
        /\ ~Positive(header_px) => geom.header_h = RZero
        /\ ~Positive(footer_px) => geom.footer_h = RZero
        /\ Positive(header_px) =>
              RMul(geom.header_h, RInt(header_px[1]))
                  = RMul(RInt(header_px[2]), RSub(PAGE_WIDTH, RMul(RInt(2), MARGIN_PT)))
        /\ Positive(footer_px) =>
              RMul(geom.footer_h, RInt(footer_px[1])) = RMul(RInt(footer_px[2]), PAGE_WIDTH)
        /\ geom.bottom_reserved
              = RAdd(RAdd(BOTTOM_OFFSET_PT, geom.footer_h), RESERVED_GAP_ABOVE_FOOTER_PT)
        /\ RLeq(RInt(100), geom.h_first)
        /\ RLeq(RInt(100), geom.h_later)
        /\ RLeq(RInt(100), FirstDiff) => geom.h_first = FirstDiff
        /\ RLeq(RInt(100), LaterDiff) => geom.h_later = LaterDiff

\* The first frame is floored while the later frame is not
C7_Witness ==
    /\ GeomDone
    /\ Positive(header_px)
    /\ RLess(FirstDiff, RInt(100))
    /\ geom.h_first = RInt(100)
    /\ RLess(RInt(100), LaterDiff)
    /\ geom.h_later = LaterDiff

-----------------------------------------------------------------------------
(* Claims about build_story, under SpecPrice, SpecStory and SpecPhoto *)

StoryBuilt == step = "story"

Indices(st, P(_)) == { i \in DOMAIN st : P(st[i]) }

IsCallout(b) ==
    b.kind = "Paragraph" /\ b.style = "price" /\ b.post = " euro + IVA al mese"
IsNote(b) ==
    b.kind = "Paragraph" /\ b.style = "italic" /\ b.pre = "Tutto incluso - senza sorprese"
IsPlainFee(b) ==
    b.kind = "Paragraph" /\ b.style = "base" /\ b.pre = "Canone mensile: N.D."
        /\ b.field = "" /\ b.post = ""

\* The callout: one price line showing the record's fee, the note right after it
HasCallout(st) ==
    /\ Cardinality(Indices(st, IsCallout)) = 1
    /\ \A i \in Indices(st, IsCallout) :
          /\ st[i].pre = "" /\ st[i].field = "canone"
          /\ "canone" \in DOMAIN data_in /\ st[i].val = data_in["canone"]
          /\ i < Len(st) /\ IsNote(st[i + 1])
    /\ Cardinality(Indices(st, IsNote)) = 1
    /\ Indices(st, IsPlainFee) = {}

\* The plain line "Canone mensile: N.D." once, and no callout
HasPlainFee(st) ==
    /\ Cardinality(Indices(st, IsPlainFee)) = 1
    /\ Indices(st, IsCallout) = {}
    /\ Indices(st, IsNote) = {}

\* C2 as stated: the callout is emitted if and only if the key 'canone' is
\* present and its value, trimmed of surrounding whitespace, does not start
\* (case-insensitively) with the sentinel "N.D."; otherwise exactly the plain
\* line "Canone mensile: N.D." and no callout.
C2_Original ==
    StoryBuilt =>
        LET wanted == /\ "canone" \in DOMAIN data_in
                      /\ ~StartsWith(Lower(Strip(data_in["canone"])), Lower(Str_ND))
        IN  IF wanted THEN HasCallout(story) ELSE HasPlainFee(story)

\* The first three characters of v, as they stand, are "n.d" in either case
BeginsNd(v) ==
    /\ Len(v) >= 3
    /\ v[1] \in {"N", "n"} /\ v[2] = "." /\ v[3] \in {"D", "d"}

\* C2 as amended: the callout is emitted if and only if the key 'canone' is
\* present, its value is not empty, and the value as it stands (not trimmed)
\* does not start, case-insensitively, with "n.d" (the sentinel without its
\* last dot); in every other case exactly the plain line "Canone mensile: N.D."
\* is emitted and no callout.
C2_Amended ==
    StoryBuilt =>
        LET wanted == /\ "canone" \in DOMAIN data_in
                      /\ data_in["canone"] # <<>>
                      /\ ~BeginsNd(data_in["canone"])
        IN  IF wanted THEN HasCallout(story) ELSE HasPlainFee(story)

\* A fee with leading whitespace before the sentinel gets the callout
C2_Witness ==
    /\ StoryBuilt
    /\ "canone" \in DOMAIN data_in
    /\ data_in["canone"] = <<" ", "N", ".", "D">>
    /\ HasCallout(story)

\* What the document shows for field k
FieldBlocks(st, k) == Indices(st, LAMBDA b : b.kind = "Paragraph" /\ b.field = k)
Shown(st, k) ==
    IF FieldBlocks(st, k) = {} THEN Str_ND
    ELSE st[CHOOSE i \in FieldBlocks(st, k) : TRUE].val
Expected(k) == IF k \in DOMAIN data_in THEN data_in[k] ELSE Str_ND
Slots(k) ==
    IF k # "canone" THEN 1 ELSE IF Indices(story, IsCallout) # {} THEN 1 ELSE 0

IsImage(b) == b.kind = "Image"
IsPhotoSpacer(b) == b.kind = "Spacer" /\ b.height = Rat(2835, 100)
PhotoUsable == photo.given /\ photo.exists

\* C6: when the photo path is supplied and the file exists, the image is drawn
\* at most 0.30 * first_page_usable_height high and at most 10 cm wide, with the
\* source's width/height ratio, between two spacers; when the path is absent or
\* the file does not exist, no image and no photo spacer is emitted (and the
\* story is built all the same).
C6_PhotoBlock ==
    StoryBuilt =>
        IF PhotoUsable
        THEN /\ Indices(story, IsImage) = {2}
             /\ Indices(story, IsPhotoSpacer) = {1, 3}
             /\ RLeq(story[2].height, RMul(Rat(3, 10), geom.h_first))
             /\ RLeq(story[2].width, RMul(RInt(10), Rat(7200, 254)))
             /\ RMul(story[2].width, RInt(photo.h)) = RMul(story[2].height, RInt(photo.w))
             /\ RLess(RZero, story[2].height)
        ELSE /\ Indices(story, IsImage) = {}
             /\ Indices(story, IsPhotoSpacer) = {}
             /\ Len(story) > 0
             /\ story[1].pre = "DATI CLIENTE"

\* A photo that fits the width but is scaled down to the height limit
C6_Witness ==
    /\ StoryBuilt
    /\ PhotoUsable
    /\ RLeq(RInt(photo.w), RMul(RInt(10), Rat(7200, 254)))
    /\ RLess(RMul(Rat(3, 10), geom.h_first), RInt(photo.h))
    /\ story[2].height = RMul(Rat(3, 10), geom.h_first)
    /\ RLess(story[2].width, RInt(photo.w))

\* The paragraphs of the story, spacers and images left out, by what they are
Kind(b) ==
    CASE b.kind # "Paragraph" -> "other"
      [] b.style = "title" -> b.pre
      [] b.field # "" /\ b.style = "base" -> b.field
      [] IsCallout(b) -> "callout"
      [] IsNote(b) -> "note"
      [] IsPlainFee(b) -> "plain fee"
      [] b.style = "base" /\ b.pre = "- " -> "service"
      [] OTHER -> "text"

RECURSIVE Outline(_)
Outline(st) ==
    IF st = <<>> THEN <<>>
    ELSE IF Head(st).kind = "Paragraph" THEN <<Kind(Head(st))>> \o Outline(Tail(st))
    ELSE Outline(Tail(st))

Repeat(x, n) == [i \in 1..n |-> x]

FixedOutline(callout) ==
    << "DATI CLIENTE", "cliente_nome", "piva_cf", "sede", "referente",
       "VEICOLO PROPOSTO", "marca_modello", "versione", "motore", "neopatentati",
       "consegna",
       "CONDIZIONI ECONOMICHE", "durata", "km_annui", "anticipo" >>
    \o (IF callout THEN <<"callout", "note">> ELSE <<"plain fee">>)
    \o <<"SERVIZI INCLUSI">> \o Repeat("service", 8)
    \o <<"DOCUMENTAZIONE RICHIESTA">> \o Repeat("text", 4)
    \o <<"TERMINI E CONDIZIONI", "text", "CONTATTI", "text">>

\* The story with the record's values and the image's size left out
Shape(st) == [i \in DOMAIN st |-> <<st[i].kind, st[i].style, st[i].pre, st[i].field, st[i].post>>]

\* C8: for every record and photo argument the story follows the fixed outline:
\* optional photo block (spacer, image, spacer), client data, proposed vehicle,
\* economic terms, price callout or plain fee line, eight included services,
\* four documentation paragraphs, terms and conditions, contacts; nothing is
\* omitted, duplicated or reordered, and the photo block and the price branch
\* are the only differences between two stories.
C8_FixedOutline ==
    StoryBuilt =>
        LET callout == Indices(story, IsCallout) # {}
            body == IF PhotoUsable THEN SubSeq(story, 4, Len(story)) ELSE story
        IN  /\ Outline(story) = FixedOutline(callout)
            /\ PhotoUsable =>
                  /\ Len(story) > 3
                  /\ <<story[1].kind, story[2].kind, story[3].kind>>
                        = <<"Spacer", "Image", "Spacer">>
            /\ Indices(body, IsImage) = {}
            /\ body # <<>> /\ body[1].pre = "DATI CLIENTE"
            /\ Len(body) = IF callout THEN 42 ELSE 40
            /\ Cardinality({ i \in DOMAIN Services :
                               \E j \in DOMAIN body : body[j].post = Services[i] }) = 8
            /\ Shape(body)
                  = Shape(build_story(IF callout THEN [k \in {"canone"} |-> Str_44]
                                      ELSE EmptyRecord, NoPhoto, RInt(100)))

\* A story with the photo block and the callout, and all sections after them
C8_Witness ==
    /\ StoryBuilt
    /\ PhotoUsable
    /\ Indices(story, IsCallout) # {}
    /\ Len(story) = 45
    /\ story[Len(story)].pre
         = "Larini Automotive Rent | Tel. 379 2114207 | noleggio@larini.it | www.larinirent.it"

-----------------------------------------------------------------------------
(* Claims about the page flow, under SpecRender *)

\* C1: in every render the template "First" lays out page 1 only and every
\* page 2..N is laid out with "Later" (frame of height h_later, footer only), so
\* the header is drawn exactly once per render, on page 1.
C1_FirstPageOnly ==
    step \in {"flow", "done"} =>
        /\ Len(flow.tmpls) = flow.page
        /\ flow.page >= 1
        /\ flow.tmpls[1] = "First"
        /\ \A i \in 2..Len(flow.tmpls) : flow.tmpls[i] = "Later"
        /\ flow.header_draws = 1
        /\ flow.footer_draws = flow.page

-----------------------------------------------------------------------------
(* Claims about the /generate handler, under Spec *)

Done(r) == pc[r] = "done"
Other(r) == CHOOSE q \in Requests : q # r

\* C4: for any interleaving of two concurrent requests, the document each
\* request renders is built only from its own record, photo, header and footer;
\* no request renders with a file the other request wrote, also when both
\* uploads carry the same filename.
C4_Independent ==
    \A r \in Requests :
        rendered[r].called > 0 =>
            /\ rendered[r].photo.owner # Other(r)
            /\ rendered[r].header.owner # Other(r)
            /\ rendered[r].footer.owner # Other(r)
            /\ Other(r) \notin rendered[r].record

\* C9: a render that fails yields no bytes: the request ends in one failure
\* response that carries the cause and holds no document bytes, partial or
\* complete; generate_pdf_bytes is called once, with the request's own paths
\* (no retry, no second attempt with other assets). Bytes are returned exactly
\* when the render succeeded.
C9_NoBytesOnFailure ==
    \A r \in Requests :
        Done(r) =>
            /\ rendered[r].called <= 1
            /\ (rendered[r].called = 1 /\ ~rendered[r].ok) =>
                  /\ resp[r].status = 500
                  /\ resp[r].detail = "PDF generation failed"
                  /\ resp[r].cause = rendered[r].cause
                  /\ resp[r].cause # ""
                  /\ resp[r].body = None
                  /\ req[r].header_image # None => rendered[r].header # DefaultAsset("header")
                  /\ req[r].footer_image # None => rendered[r].footer # DefaultAsset("footer")
            /\ resp[r].body # None <=> (rendered[r].called = 1 /\ rendered[r].ok)
            /\ resp[r].body # None => (resp[r].body = "pdf" /\ resp[r].status = 200)

\* A request whose header could not be decoded has ended in the failure response
C9_Witness ==
    \E r \in Requests :
        /\ Done(r)
        /\ rendered[r].called = 1
        /\ rendered[r].cause = "unreadable brand image"
        /\ resp[r].status = 500
        /\ resp[r].body = None

\* C10: a request ends with "Brand assets missing" only when it would use a
\* default asset that is missing; a request that uploads both header_image and
\* footer_image is rendered with them also when the default assets do not exist.
C10_AssetsOnlyWhenUsed ==
    \A r \in Requests :
        (Done(r) /\ resp[r].detail = "Brand assets missing") =>
            \/ (req[r].header_image = None /\ ~assets.header)
            \/ (req[r].footer_image = None /\ ~assets.footer)

====
